---------------------------- MODULE Spec2Model ----------------------------
(***************************************************************************)
(* Model of the feedback-portal backend (feedback-portal-backend/):        *)
(* the SQLite store set up by database.py and the Ticket operations of     *)
(* models/ticket.py that run against it through get_db().                  *)
(*                                                                         *)
(* A database value is a record of the four core tables plus the           *)
(* AUTOINCREMENT counters.  Every SQL statement of the code is an operator *)
(* from a database value to a statement result; every handler is an        *)
(* operator that runs its statements in the code's order inside get_db(),  *)
(* and an action that applies it to the committed database.                *)
(*                                                                         *)
(* SQL NULL / Python None is the empty tuple; a nullable column or an      *)
(* optional argument holding the value v is the one-element tuple <<v>>.   *)
(* Timestamps (CURRENT_TIMESTAMP, datetime.now()) are readings of one      *)
(* integer clock.                                                          *)
(***************************************************************************)
EXTENDS Integers, Sequences, FiniteSets, TLC

NULL == <<>>
Some(v) == <<v>>

(***************************************************************************)
(* Bounds of the model.                                                    *)
(***************************************************************************)
MaxSize == 3         \* create and update_status calls logged, tag rows ever inserted, clock ticks
MaxCalls == 1        \* handler calls of one concurrent caller

(***************************************************************************)
(* Enumerations of the schema and of update_status.                        *)
(***************************************************************************)
TicketTypes == {"feedback", "complaint", "suggestion", "praise", "bug"}
Priorities == {"Low", "Medium", "High", "Critical"}
StatusCheck == {"Pending", "In Review", "Resolved"}
valid_statuses == {"Pending", "In Review", "Resolved"}

(***************************************************************************)
(* Inputs the handlers are called with.                                    *)
(***************************************************************************)
Submissions ==
    { [name |-> Some("Ann"), email |-> Some("a@x.io"), product |-> Some("App"),
       rating |-> Some(5), type |-> Some("bug"), message |-> Some("Crash"),
       priority |-> Some("High")],
      [name |-> Some("Bo"), email |-> Some("a@x.io"), product |-> Some("Web"),
       rating |-> NULL, type |-> Some("praise"), message |-> Some("nice app"),
       priority |-> Some("Medium")],
      [name |-> Some("Cy"), email |-> Some("c@y.io"), product |-> Some("App"),
       rating |-> Some(4), type |-> Some("bug"), message |-> Some("slow"),
       priority |-> Some("Medium")],
      \* rejected by the store: CHECK(rating), CHECK(type), NOT NULL name
      [name |-> Some("Ann"), email |-> Some("a@x.io"), product |-> Some("App"),
       rating |-> Some(6), type |-> Some("bug"), message |-> Some("Crash"),
       priority |-> Some("Medium")],
      [name |-> Some("Cy"), email |-> Some("c@y.io"), product |-> Some("App"),
       rating |-> Some(3), type |-> Some("spam"), message |-> Some("slow"),
       priority |-> Some("Medium")],
      [name |-> NULL, email |-> Some("c@y.io"), product |-> Some("App"),
       rating |-> Some(3), type |-> Some("bug"), message |-> Some("slow"),
       priority |-> Some("Medium")] }
Emails == {a.email[1] : a \in {b \in Submissions : b.email # NULL}}
\* the callers that run handlers concurrently, each on a connection of its own
Conns == {"c1", "c2"}
StatusInputs == {"Pending", "In Review", "Resolved", "Closed"}
AssigneeInputs == {NULL, Some("sam")}
\* the (status, assigned_to, resolution_notes) update_status is called with:
\* notes come with a resolution
UpdateCalls ==
    [status : StatusInputs, assigned_to : AssigneeInputs, resolution_notes : {NULL}]
    \cup {[status |-> "Resolved", assigned_to |-> NULL,
           resolution_notes |-> Some("fixed")]}
TagInputs == {"Urgent", " urgent "}
DaysInputs == {0, 1}
\* where a storage failure (sqlite3.OperationalError) or another exception
\* strikes a handler: before statement n, or nowhere
FaultKinds == {"sqlite3.Error", "Exception"}
NoFault == [at |-> 0, kind |-> "none"]
Faults == {NoFault} \cup [at : {2, 3}, kind : FaultKinds]
\* cleanup_old_data: before statement 5, the VACUUM that follows the commit
VacuumFaults == {NoFault, [at |-> 5, kind |-> "sqlite3.Error"]}

(***************************************************************************)
(* The store.                                                              *)
(***************************************************************************)
VARIABLES
    tickets,          \* rows of table tickets
    ticket_history,   \* rows of table ticket_history
    ticket_tags,      \* rows of table ticket_tags
    customers,        \* rows of table customers
    sqlite_sequence,  \* AUTOINCREMENT counter of each table
    now,              \* the clock
    ret,              \* the last handler call: which handler, and its outcome
    pc,               \* per connection: the statement its handler runs next
    txn,              \* per connection: the database as its open transaction sees it
    call,             \* per connection: the arguments and locals of its handler
    calls,            \* per connection: the handler calls it has started
    reserved,         \* the connection holding the database's write lock, or NULL
    returned          \* per connection and email: the create calls that returned an id

connvars == <<pc, txn, call, calls, reserved, returned>>
vars == <<tickets, ticket_history, ticket_tags, customers, sqlite_sequence, now, ret,
          pc, txn, call, calls, reserved, returned>>

\* what MaxSize bounds: every create and every update_status that wrote left
\* one 'created' or 'status' row
Size ==
    Cardinality({h \in ticket_history : h.field_changed # "assigned_to"})
        + sqlite_sequence.ticket_tags + now

\* the committed database as one value
DB == [tickets |-> tickets, ticket_history |-> ticket_history,
       ticket_tags |-> ticket_tags, customers |-> customers,
       seq |-> sqlite_sequence]

EmptyDB == [tickets |-> {}, ticket_history |-> {}, ticket_tags |-> {},
            customers |-> {},
            seq |-> [tickets |-> 0, ticket_history |-> 0, ticket_tags |-> 0,
                     customers |-> 0]]

Install(d) ==
    /\ tickets' = d.tickets
    /\ ticket_history' = d.ticket_history
    /\ ticket_tags' = d.ticket_tags
    /\ customers' = d.customers
    /\ sqlite_sequence' = d.seq

(***************************************************************************)
(* Statement results.  A statement either fails (an sqlite3.Error is       *)
(* raised and the statement's own changes are undone) or yields the        *)
(* database as the connection sees it afterwards.                          *)
(***************************************************************************)
StmtOk(d, rowcount, lastrowid) ==
    [err |-> FALSE, db |-> d, rowcount |-> rowcount, lastrowid |-> lastrowid]
StmtErr(d) ==
    [err |-> TRUE, db |-> d, rowcount |-> 0 - 1, lastrowid |-> 0]

\* FOREIGN KEY (ticket_id) REFERENCES tickets (ticket_id), enforced because
\* get_db turns PRAGMA foreign_keys on
TicketExists(d, id) == \E t \in d.tickets : t.ticket_id = id

\* the NOT NULL and CHECK constraints of table tickets on an inserted row
TicketRowOk(a) ==
    /\ a.name # NULL /\ a.email # NULL /\ a.product # NULL
    /\ a.type # NULL /\ a.message # NULL
    /\ (a.rating = NULL \/ (a.rating[1] >= 1 /\ a.rating[1] <= 5))
    /\ a.type[1] \in TicketTypes
    /\ (a.priority = NULL \/ a.priority[1] \in Priorities)

\* INSERT INTO tickets (name, email, product, rating, type, message, priority)
InsertTicket(d, a, t) ==
    IF ~TicketRowOk(a) THEN StmtErr(d)
    ELSE LET id == d.seq.tickets + 1
             row == [ticket_id |-> id, name |-> a.name[1], email |-> a.email[1],
                     product |-> a.product[1], rating |-> a.rating,
                     type |-> a.type[1], message |-> a.message[1],
                     status |-> "Pending", priority |-> a.priority,
                     assigned_to |-> NULL, resolution_notes |-> NULL,
                     created_at |-> t, updated_at |-> t, resolved_at |-> NULL]
         IN StmtOk([d EXCEPT !.tickets = @ \cup {row}, !.seq.tickets = id], 1, id)

\* mutant: the count restarts with every replaced row
NextTotal_Restarts(d, email) == 0 + 1

\* COALESCE((SELECT total_tickets FROM customers WHERE email = ?), 0) + 1
NextTotal(d, email) ==
    IF \E c \in d.customers : c.email = email
    THEN (CHOOSE c \in d.customers : c.email = email).total_tickets + 1
    ELSE 0 + 1

\* INSERT OR REPLACE INTO customers (name, email, total_tickets, last_interaction):
\* the row that holds the email (UNIQUE) is deleted and a new row is inserted,
\* its other columns taking their defaults
UpsertCustomer(d, name, email, t) ==
    IF name = NULL \/ email = NULL THEN StmtErr(d)
    ELSE LET id == d.seq.customers + 1
             row == [customer_id |-> id, name |-> name[1], email |-> email[1],
                     phone |-> NULL, company |-> NULL,
                     total_tickets |-> NextTotal(d, email[1]),
                     created_at |-> t, last_interaction |-> Some(t)]
             kept == {c \in d.customers : c.email # email[1]}
         IN StmtOk([d EXCEPT !.customers = kept \cup {row}, !.seq.customers = id],
                   1, id)

\* INSERT INTO ticket_history (ticket_id, field_changed, old_value, new_value, changed_by)
InsertHistory(d, ticket_id, field_changed, old_value, new_value, changed_by, t) ==
    IF ~TicketExists(d, ticket_id) THEN StmtErr(d)
    ELSE LET id == d.seq.ticket_history + 1
             row == [history_id |-> id, ticket_id |-> ticket_id,
                     field_changed |-> field_changed, old_value |-> old_value,
                     new_value |-> new_value, changed_by |-> changed_by,
                     changed_at |-> t]
         IN StmtOk([d EXCEPT !.ticket_history = @ \cup {row},
                             !.seq.ticket_history = id], 1, id)

(***************************************************************************)
(* get_db: the connection's transaction.  `committed` is the database      *)
(* before the handler, `work` what the connection has written so far.      *)
(***************************************************************************)
\* conn.commit()
Commit(committed, work) == work
\* mutant: the writes made before the failure stay
Rollback_KeepsWrites(committed, work) == work

\* conn.rollback(), in the except sqlite3.Error clause
Rollback(committed, work) == committed
\* mutant: closing a connection keeps what it wrote and did not commit
CloseUncommitted_KeepsWrites(committed, work) == work

\* conn.close(), in the finally clause, with writes not committed
CloseUncommitted(committed, work) == committed

\* what get_db leaves when the body raises: an sqlite3.Error is rolled back
\* and re-raised; any other exception only passes the finally clause, which
\* closes the connection.  `work` is what the body had written, `closed`
\* whether the connection was closed on the way out.
Raised(committed, work, kind) ==
    [db |-> IF kind = "sqlite3.Error"
            THEN CloseUncommitted(Rollback(committed, work), Rollback(committed, work))
            ELSE CloseUncommitted(committed, work),
     raised |-> kind, value |-> NULL, work |-> work, closed |-> TRUE]
\* what get_db leaves when the body returns: the finally clause closes the
\* connection; get_db itself does not commit
Returned(committed, work, value) ==
    [db |-> CloseUncommitted(committed, work),
     raised |-> "none", value |-> value, work |-> work, closed |-> TRUE]

(***************************************************************************)
(* Ticket.create                                                           *)
(***************************************************************************)
create(d, a, fault, t) ==
    LET s1 == InsertTicket(d, a, t)
        s2 == UpsertCustomer(s1.db, a.name, a.email, t)
        s3 == InsertHistory(s2.db, s1.lastrowid, "created", NULL,
                            "New ticket created", "system", t)
    IN  IF s1.err THEN Raised(d, s1.db, "sqlite3.Error")
        ELSE IF fault.at = 2 THEN Raised(d, s1.db, fault.kind)
        ELSE IF s2.err THEN Raised(d, s2.db, "sqlite3.Error")
        ELSE IF fault.at = 3 THEN Raised(d, s2.db, fault.kind)
        ELSE IF s3.err THEN Raised(d, s3.db, "sqlite3.Error")
        ELSE Returned(Commit(d, s3.db), s3.db, Some(s1.lastrowid))

Create(a, fault) ==
    /\ Size + 1 <= MaxSize
    /\ LET r == create(DB, a, fault, now)
       IN /\ Install(r.db)
          /\ ret' = [op |-> "create", raised |-> r.raised, value |-> r.value,
                     closed |-> r.closed]
    /\ UNCHANGED <<now, connvars>>

(***************************************************************************)
(* Ticket.update_status                                                    *)
(***************************************************************************)
\* Python truth of an optional text argument: None and '' are falsy
TruthyText(x) == x # NULL /\ x[1] # ""

\* SELECT status FROM tickets WHERE ticket_id = ?
SelectStatus(d, ticket_id) == {t.status : t \in {u \in d.tickets : u.ticket_id = ticket_id}}

\* mutant: a Resolved ticket keeps its status
UpdateTicket_ResolvedIsFinal(d, ticket_id, status, assigned_to, resolution_notes, t) ==
    LET hit == {u \in d.tickets : u.ticket_id = ticket_id}
    IN  StmtOk([d EXCEPT !.tickets = (@ \ hit) \cup
                  {[u EXCEPT !.status = IF @ = "Resolved" THEN @ ELSE status,
                             !.updated_at = t] : u \in hit}],
               Cardinality(hit), 0)

\* UPDATE tickets SET status = ?, updated_at = CURRENT_TIMESTAMP
\*   [, assigned_to = ?] [, resolution_notes = ?] [, resolved_at = CURRENT_TIMESTAMP]
\* WHERE ticket_id = ?
UpdateTicket(d, ticket_id, status, assigned_to, resolution_notes, t) ==
    LET hit == {u \in d.tickets : u.ticket_id = ticket_id}
        upd(u) == [u EXCEPT
                     !.status = status,
                     !.updated_at = t,
                     !.assigned_to = IF assigned_to # NULL THEN assigned_to ELSE @,
                     !.resolution_notes =
                         IF TruthyText(resolution_notes) THEN resolution_notes ELSE @,
                     !.resolved_at = IF status = "Resolved" THEN Some(t) ELSE @]
    IN  IF status \notin StatusCheck THEN StmtErr(d)
        ELSE StmtOk([d EXCEPT !.tickets = (@ \ hit) \cup {upd(u) : u \in hit}],
                    Cardinality(hit), 0)

\* mutant: the label is not validated before the store is touched
update_status_Unvalidated(d, ticket_id, status, assigned_to, resolution_notes, changed_by, t) ==
    LET current == SelectStatus(d, ticket_id) IN
    IF current = {} THEN Returned(d, d, Some(FALSE))
    ELSE LET old_status == CHOOSE s \in current : TRUE
             s1 == UpdateTicket(d, ticket_id, status, assigned_to,
                                resolution_notes, t)
             s2 == InsertHistory(s1.db, ticket_id, "status", Some(old_status),
                                 status, changed_by, t)
         IN  IF s1.err THEN Raised(d, s1.db, "sqlite3.Error")
             ELSE IF s2.err THEN Raised(d, s2.db, "sqlite3.Error")
             ELSE Returned(Commit(d, s2.db), s2.db, Some(s2.rowcount > 0))

\* mutant: the status row logs the status read back after the UPDATE
InsertStatusHistory_ReadsBack(d, ticket_id, old_status, status, changed_by, t) ==
    InsertHistory(d, ticket_id, "status", Some(status), status, changed_by, t)

\* the status row of the audit log
InsertStatusHistory(d, ticket_id, old_status, status, changed_by, t) ==
    InsertHistory(d, ticket_id, "status", Some(old_status), status, changed_by, t)

update_status(d, ticket_id, status, assigned_to, resolution_notes, changed_by, t) ==
    IF status \notin valid_statuses THEN Returned(d, d, Some(FALSE))
    ELSE LET current == SelectStatus(d, ticket_id) IN
         IF current = {} THEN Returned(d, d, Some(FALSE))
         ELSE LET old_status == CHOOSE s \in current : TRUE
                  s1 == UpdateTicket(d, ticket_id, status, assigned_to,
                                     resolution_notes, t)
                  s2 == InsertStatusHistory(s1.db, ticket_id, old_status, status,
                                            changed_by, t)
                  s3 == IF assigned_to # NULL
                        THEN InsertHistory(s2.db, ticket_id, "assigned_to", NULL,
                                           assigned_to[1], changed_by, t)
                        ELSE s2
              IN  IF s1.err THEN Raised(d, s1.db, "sqlite3.Error")
                  ELSE IF s2.err THEN Raised(d, s2.db, "sqlite3.Error")
                  ELSE IF s3.err THEN Raised(d, s3.db, "sqlite3.Error")
                  ELSE Returned(Commit(d, s3.db), s3.db, Some(s3.rowcount > 0))

UpdateStatus(id, status, assigned_to, resolution_notes) ==
    /\ Size + 1 <= MaxSize
    /\ LET r == update_status(DB, id, status, assigned_to, resolution_notes,
                              "admin", now)
       IN /\ Install(r.db)
          /\ ret' = [op |-> "update_status", raised |-> r.raised, value |-> r.value,
                     closed |-> r.closed]
    /\ UNCHANGED <<now, connvars>>

(***************************************************************************)
(* Ticket.add_tag, Ticket.remove_tag                                       *)
(***************************************************************************)
\* str.lower() on one character
LowerChar(c) ==
    CASE c = "A" -> "a" [] c = "B" -> "b" [] c = "C" -> "c" [] c = "D" -> "d"
      [] c = "E" -> "e" [] c = "F" -> "f" [] c = "G" -> "g" [] c = "H" -> "h"
      [] c = "I" -> "i" [] c = "J" -> "j" [] c = "K" -> "k" [] c = "L" -> "l"
      [] c = "M" -> "m" [] c = "N" -> "n" [] c = "O" -> "o" [] c = "P" -> "p"
      [] c = "Q" -> "q" [] c = "R" -> "r" [] c = "S" -> "s" [] c = "T" -> "t"
      [] c = "U" -> "u" [] c = "V" -> "v" [] c = "W" -> "w" [] c = "X" -> "x"
      [] c = "Y" -> "y" [] c = "Z" -> "z" [] OTHER -> c

\* str.lower()
RECURSIVE lower(_)
lower(s) ==
    IF Len(s) = 0 THEN ""
    ELSE LowerChar(SubSeq(s, 1, 1)) \o lower(SubSeq(s, 2, Len(s)))

\* str.strip(): leading and trailing whitespace removed
RECURSIVE strip(_)
strip(s) ==
    IF Len(s) = 0 THEN ""
    ELSE IF SubSeq(s, 1, 1) = " " THEN strip(SubSeq(s, 2, Len(s)))
    ELSE IF SubSeq(s, Len(s), Len(s)) = " " THEN strip(SubSeq(s, 1, Len(s) - 1))
    ELSE s

\* the UNIQUE and PRIMARY KEY constraints of table ticket_tags a new row can
\* conflict with: tag_id is the only one the table declares
TagConflict(d, row) == \E g \in d.ticket_tags : g.tag_id = row.tag_id

\* INSERT OR IGNORE INTO ticket_tags (ticket_id, tag_name): a row in conflict
\* is skipped; a foreign-key violation still fails the statement
InsertOrIgnoreTag(d, ticket_id, tag_name, t) ==
    LET id == d.seq.ticket_tags + 1
        row == [tag_id |-> id, ticket_id |-> ticket_id, tag_name |-> tag_name,
                created_at |-> t]
    IN  IF TagConflict(d, row) THEN StmtOk(d, 0, 0)
        ELSE IF ~TicketExists(d, ticket_id) THEN StmtErr(d)
        ELSE StmtOk([d EXCEPT !.ticket_tags = @ \cup {row}, !.seq.ticket_tags = id],
                    1, id)

add_tag(d, ticket_id, tag_name, t) ==
    LET s1 == InsertOrIgnoreTag(d, ticket_id, strip(lower(tag_name)), t)
    IN  IF s1.err THEN Raised(d, s1.db, "sqlite3.Error")
        ELSE Returned(Commit(d, s1.db), s1.db, Some(s1.rowcount > 0))

\* DELETE FROM ticket_tags WHERE ticket_id = ? AND tag_name = ?
DeleteTag(d, ticket_id, tag_name) ==
    LET hit == {g \in d.ticket_tags : g.ticket_id = ticket_id /\ g.tag_name = tag_name}
    IN  StmtOk([d EXCEPT !.ticket_tags = @ \ hit], Cardinality(hit), 0)

remove_tag(d, ticket_id, tag_name) ==
    LET s1 == DeleteTag(d, ticket_id, strip(lower(tag_name)))
    IN  Returned(Commit(d, s1.db), s1.db, Some(s1.rowcount > 0))

AddTag(id, tag_name) ==
    /\ Size + 1 <= MaxSize
    /\ LET r == add_tag(DB, id, tag_name, now)
       IN /\ Install(r.db)
          /\ ret' = [op |-> "add_tag", raised |-> r.raised, value |-> r.value,
                     closed |-> r.closed]
    /\ UNCHANGED <<now, connvars>>

RemoveTag(id, tag_name) ==
    /\ LET r == remove_tag(DB, id, tag_name)
       IN /\ Install(r.db)
          /\ ret' = [op |-> "remove_tag", raised |-> r.raised, value |-> r.value,
                     closed |-> r.closed]
    /\ UNCHANGED <<now, connvars>>

(***************************************************************************)
(* cleanup_old_data                                                        *)
(***************************************************************************)
\* rows of the child tables that reference the ticket
Referenced(d, ticket_id) ==
    \/ \E h \in d.ticket_history : h.ticket_id = ticket_id
    \/ \E g \in d.ticket_tags : g.ticket_id = ticket_id

\* DELETE FROM tickets WHERE status = 'Resolved' AND resolved_at < ?
\* The foreign keys of ticket_history and ticket_tags declare no ON DELETE
\* action: deleting a referenced ticket fails the statement.
DeleteResolvedBefore(d, cutoff_date) ==
    LET hit == {u \in d.tickets : /\ u.status = "Resolved"
                                  /\ u.resolved_at # NULL
                                  /\ u.resolved_at[1] < cutoff_date}
    IN  IF \E u \in hit : Referenced(d, u.ticket_id) THEN StmtErr(d)
        ELSE StmtOk([d EXCEPT !.tickets = @ \ hit], Cardinality(hit), 0)

\* DELETE FROM ticket_history WHERE ticket_id NOT IN (SELECT ticket_id FROM tickets)
DeleteOrphanHistory(d) ==
    LET hit == {h \in d.ticket_history : ~TicketExists(d, h.ticket_id)}
    IN  StmtOk([d EXCEPT !.ticket_history = @ \ hit], Cardinality(hit), 0)

\* DELETE FROM ticket_tags WHERE ticket_id NOT IN (SELECT ticket_id FROM tickets)
DeleteOrphanTags(d) ==
    LET hit == {g \in d.ticket_tags : ~TicketExists(d, g.ticket_id)}
    IN  StmtOk([d EXCEPT !.ticket_tags = @ \ hit], Cardinality(hit), 0)

\* the three DELETEs, conn.commit(), then conn.execute('VACUUM'), which a
\* storage failure can strike after the commit
cleanup_old_data(d, days, t, fault) ==
    LET cutoff_date == t - days
        s1 == DeleteResolvedBefore(d, cutoff_date)
        s2 == DeleteOrphanHistory(s1.db)
        s3 == DeleteOrphanTags(s2.db)
    IN  IF s1.err THEN Raised(d, s1.db, "sqlite3.Error")
        ELSE IF fault.at = 5 THEN Raised(Commit(d, s3.db), s3.db, fault.kind)
        ELSE Returned(Commit(d, s3.db), s3.db,
                      Some([archived_tickets |-> s1.rowcount,
                            cleaned_history |-> s2.rowcount,
                            cleaned_tags |-> s3.rowcount]))

Cleanup(days, fault) ==
    /\ LET r == cleanup_old_data(DB, days, now, fault)
       IN /\ Install(r.db)
          /\ ret' = [op |-> "cleanup_old_data", raised |-> r.raised, value |-> r.value,
                     closed |-> r.closed]
    /\ UNCHANGED <<now, connvars>>

(***************************************************************************)
(* Queries: Ticket.get_by_id, Ticket.get_history, Ticket.get_all,          *)
(* Ticket.get_count                                                        *)
(***************************************************************************)
\* tag rows in ascending tag_id, the order the store reads them in
RECURSIVE TagRowsInOrder(_)
TagRowsInOrder(rows) ==
    IF rows = {} THEN <<>>
    ELSE LET first == CHOOSE r \in rows : \A q \in rows : r.tag_id <= q.tag_id
         IN <<first>> \o TagRowsInOrder(rows \ {first})

\* GROUP_CONCAT(tt.tag_name) over the ticket's joined tag rows, split on ','
TagsOf(d, ticket_id) ==
    LET rows == TagRowsInOrder({g \in d.ticket_tags : g.ticket_id = ticket_id})
    IN  [i \in 1 .. Len(rows) |-> rows[i].tag_name]

\* LEFT JOIN customers c ON t.email = c.email: the customer row joined to a
\* ticket, if there is one
JoinedCustomer(d, email) == {c \in d.customers : c.email = email}

\* c.company of the joined row, NULL without one
CompanyOf(d, email) ==
    IF JoinedCustomer(d, email) = {} THEN NULL
    ELSE (CHOOSE c \in JoinedCustomer(d, email) : TRUE).company

\* c.phone of the joined row, NULL without one
PhoneOf(d, email) ==
    IF JoinedCustomer(d, email) = {} THEN NULL
    ELSE (CHOOSE c \in JoinedCustomer(d, email) : TRUE).phone

get_by_id(d, ticket_id) ==
    IF \E u \in d.tickets : u.ticket_id = ticket_id
    THEN LET u == CHOOSE u \in d.tickets : u.ticket_id = ticket_id
         IN Some([ticket |-> u,
                  company |-> CompanyOf(d, u.email),
                  phone |-> PhoneOf(d, u.email),
                  tags |-> TagsOf(d, ticket_id)])
    ELSE NULL

\* mutant: the WHERE clause is missing
HistoryRowsOf_AllTickets(d, ticket_id) == d.ticket_history

\* the rows of ticket_history the WHERE clause of get_history selects
HistoryRowsOf(d, ticket_id) == {h \in d.ticket_history : h.ticket_id = ticket_id}

\* SELECT * FROM ticket_history WHERE ticket_id = ? ORDER BY changed_at DESC:
\* every list the statement may return; rows with equal changed_at come in
\* an order the store chooses
get_history(d, ticket_id) ==
    LET rows == HistoryRowsOf(d, ticket_id)
        n == Cardinality(rows)
    IN  {l \in [1 .. n -> rows] :
            /\ \A i, j \in 1 .. n : i # j => l[i] # l[j]
            /\ \A i, j \in 1 .. n : i < j => l[i].changed_at >= l[j].changed_at}

\* Python truth of an optional integer argument: None and 0 are falsy
TruthyInt(x) == x # NULL /\ x[1] # 0

\* Python truth of an optional date argument: None is falsy, and a reading of
\* the clock is a text that is not empty
TruthyDate(x) == x # NULL

\* text LIKE pattern: in the pattern % stands for any run of characters and
\* _ for any one character; SQLite's LIKE ignores the case of ASCII letters
RECURSIVE LikeMatch(_, _)
LikeMatch(text, pattern) ==
    IF Len(pattern) = 0 THEN Len(text) = 0
    ELSE LET c == SubSeq(pattern, 1, 1)
             rest == SubSeq(pattern, 2, Len(pattern))
         IN  IF c = "%"
             THEN \/ LikeMatch(text, rest)
                  \/ Len(text) > 0 /\ LikeMatch(SubSeq(text, 2, Len(text)), pattern)
             ELSE /\ Len(text) > 0
                  /\ (c = "_" \/ LowerChar(SubSeq(text, 1, 1)) = LowerChar(c))
                  /\ LikeMatch(SubSeq(text, 2, Len(text)), rest)

\* column LIKE ? with search_term = f"%{filters['search']}%"
Like(column, term) == LikeMatch(column, "%" \o term \o "%")

\* (name LIKE ? OR email LIKE ? OR message LIKE ? OR product LIKE ?)
SearchMatches(u, term) ==
    \/ Like(u.name, term) \/ Like(u.email, term)
    \/ Like(u.message, term) \/ Like(u.product, term)

\* the WHERE clause get_all builds from filters; a comparison with a NULL
\* column is not true
WhereAll(u, f) ==
    /\ TruthyText(f.status) => u.status = f.status[1]
    /\ TruthyText(f.type) => u.type = f.type[1]
    /\ TruthyText(f.priority) => u.priority = f.priority
    /\ TruthyText(f.assigned_to) => u.assigned_to = f.assigned_to
    /\ TruthyText(f.search) => SearchMatches(u, f.search[1])
    /\ TruthyDate(f.date_from) => u.created_at >= f.date_from[1]
    /\ TruthyDate(f.date_to) => u.created_at <= f.date_to[1]
    /\ TruthyInt(f.rating_min) => (u.rating # NULL /\ u.rating[1] >= f.rating_min[1])
    /\ TruthyInt(f.rating_max) => (u.rating # NULL /\ u.rating[1] <= f.rating_max[1])

\* the rows get_all's statement selects: one per ticket (GROUP BY t.ticket_id),
\* with the joined company and the ticket's tags
get_all_rows(d, f) ==
    {[ticket |-> u, company |-> CompanyOf(d, u.email),
      tags |-> TagsOf(d, u.ticket_id)] : u \in {v \in d.tickets : WhereAll(v, f)}}

\* GROUP BY t.ticket_id ORDER BY t.created_at DESC, without limit: every list
\* the statement may return; rows with equal created_at come in an order the
\* store chooses
get_all(d, f) ==
    LET rows == get_all_rows(d, f)
        n == Cardinality(rows)
    IN  {l \in [1 .. n -> rows] :
            /\ \A i, j \in 1 .. n : i # j => l[i] # l[j]
            /\ \A i, j \in 1 .. n :
                  i < j => l[i].ticket.created_at >= l[j].ticket.created_at}

\* the WHERE clause get_count builds from filters
WhereCount(u, f) ==
    /\ TruthyText(f.status) => u.status = f.status[1]
    /\ TruthyText(f.type) => u.type = f.type[1]
    /\ TruthyText(f.search) => SearchMatches(u, f.search[1])

\* SELECT COUNT(*) FROM tickets [WHERE ...]
get_count(d, f) == Cardinality({u \in d.tickets : WhereCount(u, f)})

\* the filter sets the queries are asked with
FilterSets ==
    [status : {NULL, Some("Pending")}, type : {NULL, Some("bug")},
     priority : {NULL, Some("High")}, assigned_to : {NULL, Some("sam")},
     search : {NULL, Some("APP"), Some("r%h")}, date_from : {NULL, Some(1)},
     date_to : {NULL, Some(0)}, rating_min : {NULL, Some(5)},
     rating_max : {NULL, Some(4)}]

(***************************************************************************)
(* Ticket.get_statistics: the fields total_tickets, average_rating,        *)
(* rating_distribution and top_customers.  A rating average is kept in     *)
(* hundredths.                                                             *)
(***************************************************************************)
\* date_filter: the WHERE clause built from date_from and date_to
InDateFilter(u, date_from, date_to) ==
    IF TruthyDate(date_from) /\ TruthyDate(date_to)
    THEN u.created_at >= date_from[1] /\ u.created_at <= date_to[1]
    ELSE IF TruthyDate(date_from) THEN u.created_at >= date_from[1]
    ELSE IF TruthyDate(date_to) THEN u.created_at <= date_to[1]
    ELSE TRUE

\* SUM(rating) over rows whose rating IS NOT NULL
RECURSIVE SumRating(_)
SumRating(rows) ==
    IF rows = {} THEN 0
    ELSE LET u == CHOOSE v \in rows : TRUE
         IN u.rating[1] + SumRating(rows \ {u})

\* mutant: the mean is taken over the unrated tickets too
AvgRating_CountsUnrated(rows) ==
    LET rated == {u \in rows : u.rating # NULL}
    IN  IF rated = {} THEN NULL
        ELSE Some([num |-> SumRating(rated), den |-> Cardinality(rows)])

\* SELECT AVG(rating) FROM tickets WHERE rating IS NOT NULL [AND ...]:
\* NULL over no rows, else the mean, kept as a fraction
AvgRating(rows) ==
    LET rated == {u \in rows : u.rating # NULL}
    IN  IF rated = {} THEN NULL
        ELSE Some([num |-> SumRating(rated), den |-> Cardinality(rated)])

\* round(avg_rating, 2), in hundredths: the nearest hundredth, an exact half
\* going to the even one
Round2(q) ==
    LET whole == (100 * q.num) \div q.den
        rest == (100 * q.num) % q.den
    IN  IF 2 * rest < q.den THEN whole
        ELSE IF 2 * rest > q.den THEN whole + 1
        ELSE IF whole % 2 = 0 THEN whole ELSE whole + 1

\* SELECT rating, COUNT(*) ... WHERE rating IS NOT NULL ... GROUP BY rating,
\* as a dict
RatingDistribution(rows) ==
    LET rated == {u \in rows : u.rating # NULL}
    IN  [r \in {u.rating[1] : u \in rated} |->
            Cardinality({u \in rated : u.rating[1] = r})]

\* LIMIT 10 of top_customers
TopLimit == 10

\* SELECT email, name, COUNT(*) as ticket_count ... GROUP BY email, name
CustomerGroups(rows) ==
    {[email |-> k[1], name |-> k[2],
      ticket_count |-> Cardinality({u \in rows : u.email = k[1] /\ u.name = k[2]})] :
        k \in {<<u.email, u.name>> : u \in rows}}

\* ... ORDER BY ticket_count DESC LIMIT 10: every list the statement may
\* return; groups of equal count come in an order the store chooses
TopCustomers(rows) ==
    LET groups == CustomerGroups(rows)
        n == Cardinality(groups)
        kept == IF n < TopLimit THEN n ELSE TopLimit
    IN  {SubSeq(l, 1, kept) :
            l \in {m \in [1 .. n -> groups] :
                     /\ \A i, j \in 1 .. n : i # j => m[i] # m[j]
                     /\ \A i, j \in 1 .. n :
                           i < j => m[i].ticket_count >= m[j].ticket_count}}

get_statistics(d, date_from, date_to) ==
    LET rows == {u \in d.tickets : InDateFilter(u, date_from, date_to)}
        avg_rating == AvgRating(rows)
    IN  [total_tickets |-> Cardinality(rows),
         average_rating |-> IF avg_rating # NULL /\ avg_rating[1].num # 0
                            THEN Round2(avg_rating[1]) ELSE 0,
         rating_distribution |-> RatingDistribution(rows),
         top_customers |-> TopCustomers(rows)]

\* the date windows get_statistics is asked with
DateWindows == [date_from : {NULL, Some(0), Some(1)}, date_to : {NULL, Some(0), Some(1)}]

\* the clock advances
Tick ==
    /\ Size + 1 <= MaxSize
    /\ now' = now + 1
    /\ UNCHANGED <<tickets, ticket_history, ticket_tags, customers, sqlite_sequence, ret,
                   connvars>>

Init ==
    /\ tickets = {}
    /\ ticket_history = {}
    /\ ticket_tags = {}
    /\ customers = {}
    /\ sqlite_sequence = EmptyDB.seq
    /\ now = 0
    /\ ret = [op |-> "none"]
    /\ pc = [c \in Conns |-> "idle"]
    /\ txn = [c \in Conns |-> NULL]
    /\ call = [c \in Conns |-> NULL]
    /\ calls = [c \in Conns |-> 0]
    /\ reserved = NULL
    /\ returned = [c \in Conns |-> [e \in Emails |-> 0]]

\* the ids handlers are called with: every id assigned so far and one never assigned
TicketIds == 1 .. (sqlite_sequence.tickets + 1)

Next ==
    \/ \E a \in Submissions, f \in Faults : Create(a, f)
    \/ \E id \in TicketIds, c \in UpdateCalls :
          UpdateStatus(id, c.status, c.assigned_to, c.resolution_notes)
    \/ \E id \in TicketIds, g \in TagInputs : AddTag(id, g)
    \/ \E id \in TicketIds, g \in TagInputs : RemoveTag(id, g)
    \/ \E days \in DaysInputs, f \in VacuumFaults : Cleanup(days, f)
    \/ Tick

Spec == Init /\ [][Next]_vars

(***************************************************************************)
(* Concurrent callers.  Each runs Ticket.create on its own connection,     *)
(* statement by statement.  The first statement is a write: sqlite3 opens  *)
(* the transaction and the INSERT takes the database's RESERVED lock,      *)
(* which one connection holds at a time; the others wait for it (for up    *)
(* to the connection's timeout of 30 s) and then fail with "database is    *)
(* locked".  The holder's transaction reads and writes its own copy and    *)
(* publishes it at commit.                                                 *)
(***************************************************************************)
\* mutant: writers do not exclude each other
CanReserve_NoLock(c) == TRUE

\* whether connection c can take the RESERVED lock
CanReserve(c) == reserved = NULL

\* statement 1 of create, INSERT INTO tickets, opening the transaction
CreateInsertTicket(c, a) ==
    /\ pc[c] = "idle" /\ calls[c] < MaxCalls
    /\ CanReserve(c)
    /\ calls' = [calls EXCEPT ![c] = @ + 1]
    /\ LET s1 == InsertTicket(DB, a, now)
       IN  IF s1.err
           THEN /\ Install(Raised(DB, s1.db, "sqlite3.Error").db)
                /\ UNCHANGED <<pc, txn, call, reserved>>
           ELSE /\ reserved' = Some(c)
                /\ txn' = [txn EXCEPT ![c] = s1.db]
                /\ call' = [call EXCEPT ![c] = [args |-> a, ticket_id |-> s1.lastrowid]]
                /\ pc' = [pc EXCEPT ![c] = "upsert"]
                /\ UNCHANGED <<tickets, ticket_history, ticket_tags, customers,
                               sqlite_sequence>>
    /\ UNCHANGED <<now, ret, returned>>

\* statement 1 of create while another connection holds the lock until the
\* timeout passes: sqlite3.OperationalError, nothing written
CreateLocked(c, a) ==
    /\ pc[c] = "idle" /\ calls[c] < MaxCalls
    /\ ~CanReserve(c)
    /\ calls' = [calls EXCEPT ![c] = @ + 1]
    /\ UNCHANGED <<tickets, ticket_history, ticket_tags, customers, sqlite_sequence,
                   now, ret, pc, txn, call, reserved, returned>>

\* statement 2 of create, INSERT OR REPLACE INTO customers
CreateUpsertCustomer(c) ==
    /\ pc[c] = "upsert"
    /\ LET s2 == UpsertCustomer(txn[c], call[c].args.name, call[c].args.email, now)
       IN  /\ txn' = [txn EXCEPT ![c] = s2.db]
           /\ pc' = [pc EXCEPT ![c] = "log"]
    /\ UNCHANGED <<tickets, ticket_history, ticket_tags, customers, sqlite_sequence,
                   now, ret, call, calls, reserved, returned>>

\* statement 3 of create, INSERT INTO ticket_history
CreateInsertHistory(c) ==
    /\ pc[c] = "log"
    /\ LET s3 == InsertHistory(txn[c], call[c].ticket_id, "created", NULL,
                               "New ticket created", "system", now)
       IN  /\ txn' = [txn EXCEPT ![c] = s3.db]
           /\ pc' = [pc EXCEPT ![c] = "commit"]
    /\ UNCHANGED <<tickets, ticket_history, ticket_tags, customers, sqlite_sequence,
                   now, ret, call, calls, reserved, returned>>

\* conn.commit() and return ticket_id
CreateCommit(c) ==
    /\ pc[c] = "commit"
    /\ Install(Commit(DB, txn[c]))
    /\ returned' = [returned EXCEPT ![c][call[c].args.email[1]] = @ + 1]
    /\ reserved' = NULL
    /\ txn' = [txn EXCEPT ![c] = NULL]
    /\ call' = [call EXCEPT ![c] = NULL]
    /\ pc' = [pc EXCEPT ![c] = "idle"]
    /\ UNCHANGED <<now, ret, calls>>

\* a failure between the statements of create: get_db rolls back or closes,
\* the lock is released and the exception reaches the caller
CreateRaises(c, kind) ==
    /\ pc[c] \in {"upsert", "log", "commit"}
    /\ Install(Raised(DB, txn[c], kind).db)
    /\ reserved' = NULL
    /\ txn' = [txn EXCEPT ![c] = NULL]
    /\ call' = [call EXCEPT ![c] = NULL]
    /\ pc' = [pc EXCEPT ![c] = "idle"]
    /\ UNCHANGED <<now, ret, calls, returned>>

NextConc ==
    \/ \E c \in Conns, a \in Submissions : CreateInsertTicket(c, a)
    \/ \E c \in Conns, a \in Submissions : CreateLocked(c, a)
    \/ \E c \in Conns : CreateUpsertCustomer(c)
    \/ \E c \in Conns : CreateInsertHistory(c)
    \/ \E c \in Conns : CreateCommit(c)
    \/ \E c \in Conns, kind \in FaultKinds : CreateRaises(c, kind)
    \/ Tick

SpecConc == Init /\ [][NextConc]_vars

(***************************************************************************)
(* Concurrent callers of Ticket.update_status, each on a connection of     *)
(* its own, statement by statement.  The SELECT runs in autocommit, before *)
(* any transaction: it reads the committed store and holds no lock once    *)
(* its row is fetched.  The UPDATE opens the transaction and takes the     *)
(* RESERVED lock; the INSERTs into ticket_history and the commit follow    *)
(* under it.  Tickets come from Ticket.create, run while no connection     *)
(* holds the lock.                                                         *)
(***************************************************************************)
\* the label check, the connection and the SELECT of update_status
UpdateSelect(c, id, u) ==
    /\ pc[c] = "idle" /\ calls[c] < MaxCalls
    /\ Size + 1 <= MaxSize
    /\ calls' = [calls EXCEPT ![c] = @ + 1]
    /\ IF u.status \notin valid_statuses \/ SelectStatus(DB, id) = {}
       THEN UNCHANGED <<pc, call>>
       ELSE /\ call' = [call EXCEPT ![c] =
                          [ticket_id |-> id, args |-> u,
                           old_status |-> CHOOSE st \in SelectStatus(DB, id) : TRUE]]
            /\ pc' = [pc EXCEPT ![c] = "update"]
    /\ UNCHANGED <<tickets, ticket_history, ticket_tags, customers, sqlite_sequence,
                   now, ret, txn, reserved, returned>>

\* the UPDATE of update_status, opening the transaction
UpdateWrite(c) ==
    /\ pc[c] = "update"
    /\ CanReserve(c)
    /\ reserved' = Some(c)
    /\ LET s1 == UpdateTicket(DB, call[c].ticket_id, call[c].args.status,
                              call[c].args.assigned_to, call[c].args.resolution_notes,
                              now)
       IN  txn' = [txn EXCEPT ![c] = s1.db]
    /\ pc' = [pc EXCEPT ![c] = "log_status"]
    /\ UNCHANGED <<tickets, ticket_history, ticket_tags, customers, sqlite_sequence,
                   now, ret, call, calls, returned>>

\* the UPDATE while another connection holds the lock until the timeout
\* passes: sqlite3.OperationalError, nothing written
UpdateLocked(c) ==
    /\ pc[c] = "update"
    /\ ~CanReserve(c)
    /\ call' = [call EXCEPT ![c] = NULL]
    /\ pc' = [pc EXCEPT ![c] = "idle"]
    /\ UNCHANGED <<tickets, ticket_history, ticket_tags, customers, sqlite_sequence,
                   now, ret, txn, calls, reserved, returned>>

\* the INSERT of the status row, with the old_status the SELECT returned
UpdateLogStatus(c) ==
    /\ pc[c] = "log_status"
    /\ LET s2 == InsertStatusHistory(txn[c], call[c].ticket_id, call[c].old_status,
                                     call[c].args.status, "admin", now)
       IN  txn' = [txn EXCEPT ![c] = s2.db]
    /\ pc' = [pc EXCEPT ![c] =
                IF call[c].args.assigned_to # NULL THEN "log_assignee" ELSE "commit_update"]
    /\ UNCHANGED <<tickets, ticket_history, ticket_tags, customers, sqlite_sequence,
                   now, ret, call, calls, reserved, returned>>

\* the INSERT of the assigned_to row
UpdateLogAssignee(c) ==
    /\ pc[c] = "log_assignee"
    /\ LET s3 == InsertHistory(txn[c], call[c].ticket_id, "assigned_to", NULL,
                               call[c].args.assigned_to[1], "admin", now)
       IN  txn' = [txn EXCEPT ![c] = s3.db]
    /\ pc' = [pc EXCEPT ![c] = "commit_update"]
    /\ UNCHANGED <<tickets, ticket_history, ticket_tags, customers, sqlite_sequence,
                   now, ret, call, calls, reserved, returned>>

\* conn.commit() and return cursor.rowcount > 0
UpdateCommit(c) ==
    /\ pc[c] = "commit_update"
    /\ Install(Commit(DB, txn[c]))
    /\ reserved' = NULL
    /\ txn' = [txn EXCEPT ![c] = NULL]
    /\ call' = [call EXCEPT ![c] = NULL]
    /\ pc' = [pc EXCEPT ![c] = "idle"]
    /\ UNCHANGED <<now, ret, calls, returned>>

\* a failure between the statements of update_status: get_db rolls back or
\* closes, the lock is released and the exception reaches the caller
UpdateRaises(c, kind) ==
    /\ pc[c] \in {"log_status", "log_assignee", "commit_update"}
    /\ Install(Raised(DB, txn[c], kind).db)
    /\ reserved' = NULL
    /\ txn' = [txn EXCEPT ![c] = NULL]
    /\ call' = [call EXCEPT ![c] = NULL]
    /\ pc' = [pc EXCEPT ![c] = "idle"]
    /\ UNCHANGED <<now, ret, calls, returned>>

\* Ticket.create, start to commit, while no connection holds the lock
CreateUnlocked(a) == reserved = NULL /\ Create(a, NoFault)

NextUpd ==
    \/ \E a \in Submissions : CreateUnlocked(a)
    \/ \E c \in Conns, id \in TicketIds, u \in UpdateCalls : UpdateSelect(c, id, u)
    \/ \E c \in Conns : UpdateWrite(c)
    \/ \E c \in Conns : UpdateLocked(c)
    \/ \E c \in Conns : UpdateLogStatus(c)
    \/ \E c \in Conns : UpdateLogAssignee(c)
    \/ \E c \in Conns : UpdateCommit(c)
    \/ \E c \in Conns, kind \in FaultKinds : UpdateRaises(c, kind)
    \/ Tick

SpecUpd == Init /\ [][NextUpd]_vars

tables == <<tickets, ticket_history, ticket_tags, customers>>

(***************************************************************************)
(* C1.  In every reachable state every ticket has resolved_at non-null     *)
(* if and only if its status is 'Resolved'.                                *)
(* update_status stamps resolved_at on 'Resolved' and never clears it, so  *)
(* the statement fails once a Resolved ticket is moved to another status.  *)
(***************************************************************************)
C1_ResolvedAtIffResolved ==
    \A u \in tickets : (u.resolved_at # NULL) <=> (u.status = "Resolved")

(***************************************************************************)
(* C2.  The pair (ticket_id, tag_name) is unique among the ticket_tags     *)
(* rows in every reachable state, so adding a tag twice under names equal  *)
(* after lower-casing and trimming leaves one row.                         *)
(* ticket_tags declares no UNIQUE(ticket_id, tag_name): INSERT OR IGNORE   *)
(* has nothing to ignore and stores a second row.                          *)
(***************************************************************************)
C2_TagPairUnique ==
    \A g, h \in ticket_tags :
        (g.ticket_id = h.ticket_id /\ g.tag_name = h.tag_name) => g = h

(***************************************************************************)
(* C3.  For every store state and every filter set, get_count(filters)     *)
(* equals the number of tickets get_all(filters) returns without           *)
(* limit/offset.                                                           *)
(* get_count builds its WHERE from status, type and search only.           *)
(***************************************************************************)
C3_CountMatchesList ==
    \A f \in FilterSets : get_count(DB, f) = Cardinality(get_all_rows(DB, f))


(***************************************************************************)
(* C4.  Customer rollup: along every run, for each email the customer      *)
(* row's total_tickets (0 while there is no row) grows in each step by     *)
(* exactly the number of tickets that step created for the email, so it    *)
(* equals the number of tickets ever created for the email and never       *)
(* decreases; and no email has two customer rows.                          *)
(***************************************************************************)
TotalTickets(rows, email) ==
    IF \E c \in rows : c.email = email
    THEN (CHOOSE c \in rows : c.email = email).total_tickets
    ELSE 0

\* the tickets a step inserted carry ids above the AUTOINCREMENT counter
CreatedInStep(email) ==
    Cardinality({u \in tickets' : u.ticket_id > sqlite_sequence.tickets
                                  /\ u.email = email})

OneRowPerEmail ==
    \A c, e \in customers : c.email = e.email => c = e

C4_RollupCountsCreations ==
    /\ []OneRowPerEmail
    /\ [][\A e \in Emails :
            TotalTickets(customers', e) = TotalTickets(customers, e) + CreatedInStep(e)]_vars

C4_Witness ==
    \E c \in customers :
        /\ c.total_tickets = 2
        /\ Cardinality({u \in tickets : u.email = c.email}) = 2
        /\ ret.op = "cleanup_old_data"

(***************************************************************************)
(* C5.  No lost update: whenever no create is in flight, the customer      *)
(* row of every email counts exactly the create calls that returned a      *)
(* ticket id for it, over all concurrent callers; two callers that both    *)
(* succeed for one email leave total_tickets = 2, never 1.                 *)
(***************************************************************************)
RECURSIVE SumReturned(_, _)
SumReturned(cs, e) ==
    IF cs = {} THEN 0
    ELSE LET c == CHOOSE x \in cs : TRUE
         IN returned[c][e] + SumReturned(cs \ {c}, e)

C5_NoLostUpdate ==
    (\A c \in Conns : pc[c] = "idle") =>
        \A e \in Emails : TotalTickets(customers, e) = SumReturned(Conns, e)

C5_Witness ==
    /\ \A c \in Conns : pc[c] = "idle"
    /\ \E e \in Emails :
          /\ \A c \in Conns : returned[c][e] = 1
          /\ TotalTickets(customers, e) = 2

(***************************************************************************)
(* C6.  Right after a successful Ticket.create, get_by_id on the returned  *)
(* id yields a ticket with status 'Pending' and resolved_at None, and      *)
(* get_history on that id yields exactly one entry, whose field_changed    *)
(* is 'created'.                                                           *)
(***************************************************************************)
C6_CreateThenRead ==
    (ret.op = "create" /\ ret.raised = "none") =>
        LET id == ret.value[1]
            got == get_by_id(DB, id)
        IN  /\ got # NULL
            /\ got[1].ticket.status = "Pending"
            /\ got[1].ticket.resolved_at = NULL
            /\ get_history(DB, id) # {}
            /\ \A l \in get_history(DB, id) :
                  Len(l) = 1 /\ l[1].field_changed = "created"

C6_Witness ==
    /\ ret.op = "create" /\ ret.raised = "none" /\ ret.value = Some(2)
    /\ Cardinality(ticket_history) >= 3

(***************************************************************************)
(* C7.  An update_status call whose status is not one of 'Pending',        *)
(* 'In Review', 'Resolved', or whose ticket id does not exist, returns     *)
(* False and leaves tickets, ticket_history, ticket_tags and customers     *)
(* as they were.                                                           *)
(***************************************************************************)
C7_RejectedUpdateChangesNothing ==
    [][\A id \in TicketIds, c \in UpdateCalls :
          (/\ ret'.op = "update_status"
           /\ UpdateStatus(id, c.status, c.assigned_to, c.resolution_notes)
           /\ (c.status \notin {"Pending", "In Review", "Resolved"}
               \/ ~\E u \in tickets : u.ticket_id = id))
          => (ret'.raised = "none" /\ ret'.value = Some(FALSE) /\ UNCHANGED tables)]_vars

C7_Witness ==
    /\ ret.op = "update_status" /\ ret.value = Some(FALSE)
    /\ tickets # {} /\ Cardinality(ticket_history) >= 2

(***************************************************************************)
(* C8.  Every update_status call that returns True appends exactly one     *)
(* ticket_history row with field_changed = 'status', for that ticket,      *)
(* with old_value the ticket's status before the call and new_value the    *)
(* requested status (also when the two are equal); hence in every state    *)
(* the new_value of a ticket's latest status row is the ticket's status.   *)
(***************************************************************************)
StatusRows(rows, id) ==
    {h \in rows : h.ticket_id = id /\ h.field_changed = "status"}

LatestStatusRowIsCurrent ==
    \A u \in tickets :
        LET rows == StatusRows(ticket_history, u.ticket_id)
        IN  rows # {} =>
              (CHOOSE h \in rows : \A g \in rows : g.history_id <= h.history_id).new_value
                  = u.status

C8_StatusRowPerUpdate ==
    /\ []LatestStatusRowIsCurrent
    /\ [][\A id \in TicketIds, c \in UpdateCalls :
            (/\ ret'.op = "update_status"
             /\ UpdateStatus(id, c.status, c.assigned_to, c.resolution_notes)
             /\ ret'.value = Some(TRUE))
            => LET added == {h \in ticket_history' \ ticket_history :
                                h.field_changed = "status"}
               IN  /\ Cardinality(added) = 1
                   /\ \A h \in added :
                        /\ h.ticket_id = id
                        /\ h.new_value = c.status
                        /\ \E u \in tickets :
                              u.ticket_id = id /\ h.old_value = Some(u.status)]_vars

C8_Witness ==
    /\ ret.op = "update_status" /\ ret.value = Some(TRUE)
    /\ \E g, h \in ticket_history :
          /\ g.field_changed = "status" /\ h.field_changed = "status"
          /\ g.ticket_id = h.ticket_id /\ g.history_id < h.history_id
          /\ h.old_value = Some(h.new_value)

(***************************************************************************)
(* C9.  Ticket.create is all or nothing: a call that raises (a constraint  *)
(* violation, a storage failure or another exception before the commit)    *)
(* leaves every table and counter as it was; a call that returns has       *)
(* added the ticket row, the 'created' history row and the customer        *)
(* row's increment together.                                               *)
(***************************************************************************)
C9_CreateAllOrNothing ==
    [][\A a \in Submissions, f \in Faults :
          (ret'.op = "create" /\ Create(a, f)) =>
            \/ /\ ret'.raised # "none"
               /\ UNCHANGED <<tables, sqlite_sequence>>
            \/ /\ ret'.raised = "none"
               /\ LET id == ret'.value[1]
                  IN  /\ \E u \in tickets' \ tickets : u.ticket_id = id
                      /\ Cardinality(tickets' \ tickets) = 1
                      /\ \E h \in ticket_history' \ ticket_history :
                            h.ticket_id = id /\ h.field_changed = "created"
                      /\ Cardinality(ticket_history' \ ticket_history) = 1
                      /\ TotalTickets(customers', a.email[1])
                            = TotalTickets(customers, a.email[1]) + 1]_vars

C9_Witness ==
    /\ ret.op = "create" /\ ret.raised = "Exception"
    /\ Cardinality(tickets) = 1

(***************************************************************************)
(* C10.  Retention sweep: cleanup_old_data(days) completes, removes every  *)
(* ticket that is Resolved with resolved_at older than the horizon         *)
(* together with the ticket_history and ticket_tags rows referencing it,   *)
(* and leaves every other ticket, history row and tag row untouched.       *)
(* With foreign keys on, the DELETE of a ticket that still has history     *)
(* rows fails, and every ticket made by Ticket.create has one.             *)
(***************************************************************************)
Expired(days) ==
    {u \in tickets : /\ u.status = "Resolved" /\ u.resolved_at # NULL
                     /\ u.resolved_at[1] < now - days}

C10_SweepRemovesExpired ==
    [][\A days \in DaysInputs :
          (ret'.op = "cleanup_old_data" /\ Cleanup(days, NoFault)) =>
            LET gone == {u.ticket_id : u \in Expired(days)}
            IN  /\ ret'.raised = "none"
                /\ tickets' = {u \in tickets : u.ticket_id \notin gone}
                /\ ticket_history' = {h \in ticket_history : h.ticket_id \notin gone}
                /\ ticket_tags' = {g \in ticket_tags : g.ticket_id \notin gone}]_vars

(***************************************************************************)
(* C11.  Filter composition in get_all: for every store state and every    *)
(* filter set, the result holds exactly the tickets that satisfy all       *)
(* supplied (truthy) predicates together, each ticket once, ordered by     *)
(* created_at descending; absent or falsy keys impose no restriction.      *)
(* The predicates are those of the query contract: equality on status,     *)
(* type, priority and assigned_to, a case-insensitive substring match of   *)
(* the search term in name, email, message or product, and inclusive       *)
(* bounds on created_at and rating.                                        *)
(* get_all passes the search term to LIKE unescaped, so a term holding %   *)
(* or _ is matched as a pattern: 'r%h' selects the ticket whose message    *)
(* is 'Crash', which does not contain 'r%h'.                               *)
(***************************************************************************)
\* whether needle occurs in hay
Contains(hay, needle) ==
    \E i \in 1 .. (Len(hay) - Len(needle) + 1) :
        SubSeq(hay, i, i + Len(needle) - 1) = needle

ContainsIgnoringCase(hay, needle) == Contains(lower(hay), lower(needle))

\* a filter key that is present and not falsy
SuppliedText(x) == x # NULL /\ x # Some("")
SuppliedNumber(x) == x # NULL /\ x # Some(0)
SuppliedDate(x) == x # NULL

SatisfiesAll(u, f) ==
    /\ SuppliedText(f.status) => u.status = f.status[1]
    /\ SuppliedText(f.type) => u.type = f.type[1]
    /\ SuppliedText(f.priority) => u.priority = f.priority
    /\ SuppliedText(f.assigned_to) => u.assigned_to = f.assigned_to
    /\ SuppliedText(f.search) =>
          \E column \in {u.name, u.email, u.message, u.product} :
              ContainsIgnoringCase(column, f.search[1])
    /\ SuppliedDate(f.date_from) => u.created_at >= f.date_from[1]
    /\ SuppliedDate(f.date_to) => u.created_at <= f.date_to[1]
    /\ SuppliedNumber(f.rating_min) => (u.rating # NULL /\ u.rating[1] >= f.rating_min[1])
    /\ SuppliedNumber(f.rating_max) => (u.rating # NULL /\ u.rating[1] <= f.rating_max[1])

\* filter sets whose keys are all present and falsy
FalsyFilterSets ==
    {[status |-> Some(""), type |-> Some(""), priority |-> Some(""),
      assigned_to |-> Some(""), search |-> Some(""), date_from |-> NULL,
      date_to |-> NULL, rating_min |-> Some(0), rating_max |-> Some(0)]}

\* get_all(f) returns the tickets satisfying f, once each, newest first
ComposesFilters(f) ==
    /\ get_all(DB, f) # {}
    /\ \A l \in get_all(DB, f) :
          /\ {l[i].ticket : i \in 1 .. Len(l)} = {u \in tickets : SatisfiesAll(u, f)}
          /\ \A i, j \in 1 .. Len(l) :
                i # j => l[i].ticket.ticket_id # l[j].ticket.ticket_id
          /\ \A i, j \in 1 .. Len(l) :
                i < j => l[i].ticket.created_at >= l[j].ticket.created_at

C11_FilterComposition ==
    \A f \in FilterSets \cup FalsyFilterSets : ComposesFilters(f)

(***************************************************************************)
(* C12.  Storage gateway scoping: for every handler that runs its body     *)
(* inside get_db, when the body returns, what it wrote is the committed    *)
(* store; when the body raises (a store error or any other exception),     *)
(* the committed store is as before the call and the caller gets the       *)
(* error; and on every exit the connection has been closed.                *)
(* The commit is the body's own conn.commit(), its last statement before   *)
(* returning in every writing handler; get_db adds the rollback and the    *)
(* close.                                                                  *)
(***************************************************************************)
\* r is what the handler of this step computed; ret' is what its caller got
ScopedOutcome(r) ==
    /\ ret'.closed
    /\ IF ret'.raised = "none"
       THEN DB' = r.work
       ELSE DB' = DB /\ ret'.raised \in FaultKinds /\ ret'.value = NULL

C12_GatewayScoping ==
    [][/\ \A a \in Submissions, f \in Faults :
            (ret'.op = "create" /\ Create(a, f)) => ScopedOutcome(create(DB, a, f, now))
       /\ \A id \in TicketIds, c \in UpdateCalls :
            (/\ ret'.op = "update_status"
             /\ UpdateStatus(id, c.status, c.assigned_to, c.resolution_notes))
            => ScopedOutcome(update_status(DB, id, c.status, c.assigned_to,
                                           c.resolution_notes, "admin", now))
       /\ \A id \in TicketIds, g \in TagInputs :
            (ret'.op = "add_tag" /\ AddTag(id, g)) => ScopedOutcome(add_tag(DB, id, g, now))
       /\ \A id \in TicketIds, g \in TagInputs :
            (ret'.op = "remove_tag" /\ RemoveTag(id, g))
            => ScopedOutcome(remove_tag(DB, id, g))
       /\ \A days \in DaysInputs, f \in VacuumFaults :
            (ret'.op = "cleanup_old_data" /\ Cleanup(days, f))
            => ScopedOutcome(cleanup_old_data(DB, days, now, f))]_vars

C12_Witness ==
    /\ ret.op = "create" /\ ret.raised \in FaultKinds /\ ret.closed
    /\ tickets # {} /\ ticket_tags # {}

(***************************************************************************)
(* C13.  The status machine checks the target label only: for every        *)
(* existing ticket, whatever its status, and every target among            *)
(* 'Pending', 'In Review', 'Resolved' (the current status included),       *)
(* update_status returns True and leaves the ticket with the target        *)
(* status; so every ticket's status is always one of the three labels and  *)
(* each label can be reached from each other.                              *)
(***************************************************************************)
StatusIsALabel == \A u \in tickets : u.status \in {"Pending", "In Review", "Resolved"}

C13_AnyLabelFromAnyLabel ==
    /\ []StatusIsALabel
    /\ [][\A id \in TicketIds, c \in UpdateCalls :
            (/\ ret'.op = "update_status"
             /\ UpdateStatus(id, c.status, c.assigned_to, c.resolution_notes)
             /\ c.status \in {"Pending", "In Review", "Resolved"}
             /\ \E u \in tickets : u.ticket_id = id)
            => /\ ret'.raised = "none" /\ ret'.value = Some(TRUE)
               /\ \E u \in tickets' : u.ticket_id = id /\ u.status = c.status
               /\ \A u \in tickets' : u.ticket_id # id => u \in tickets]_vars

\* a ticket went from Pending to Resolved and from there to In Review
C13_Witness ==
    /\ ret.op = "update_status" /\ ret.value = Some(TRUE)
    /\ \E u \in tickets, g, h \in ticket_history :
          /\ g.ticket_id = u.ticket_id /\ h.ticket_id = u.ticket_id
          /\ g.history_id < h.history_id
          /\ g.old_value = Some("Pending") /\ g.new_value = "Resolved"
          /\ h.old_value = Some("Resolved") /\ h.new_value = "In Review"
          /\ u.status = "In Review"

(***************************************************************************)
(* C14.  Audit completeness for tags: every add_tag or remove_tag that     *)
(* changes a ticket's set of tags appends a ticket_history row for that    *)
(* ticket, so the ticket's history strictly grows with the update.         *)
(* add_tag and remove_tag write ticket_tags only.                          *)
(***************************************************************************)
TagSetOf(rows, id) == {g.tag_name : g \in {h \in rows : h.ticket_id = id}}

HistoryGrows(id) ==
    Cardinality(HistoryRowsOf(DB', id)) > Cardinality(HistoryRowsOf(DB, id))

C14_TagUpdateAppendsHistory ==
    [][\A id \in TicketIds, g \in TagInputs :
          (/\ ret'.op \in {"add_tag", "remove_tag"}
           /\ (AddTag(id, g) \/ RemoveTag(id, g))
           /\ TagSetOf(ticket_tags', id) # TagSetOf(ticket_tags, id))
          => HistoryGrows(id)]_vars

(***************************************************************************)
(* C15.  A successful update_status appends a history row with             *)
(* field_changed = 'assigned_to' if and only if the ticket's assigned_to   *)
(* changed: none when assigned_to is omitted, none when the supplied       *)
(* assignee is the current one, exactly one when it differs.               *)
(* update_status appends the row whenever assigned_to is not None, without *)
(* comparing it with the stored value.                                     *)
(***************************************************************************)
AssigneeRowsAdded(id) ==
    {h \in ticket_history' \ ticket_history :
        h.ticket_id = id /\ h.field_changed = "assigned_to"}

C15_AssigneeRowIffChanged ==
    [][\A id \in TicketIds, c \in UpdateCalls :
          (/\ ret'.op = "update_status"
           /\ UpdateStatus(id, c.status, c.assigned_to, c.resolution_notes)
           /\ ret'.value = Some(TRUE))
          => \A u \in tickets :
                u.ticket_id = id =>
                  Cardinality(AssigneeRowsAdded(id)) =
                      IF c.assigned_to # NULL /\ c.assigned_to # u.assigned_to
                      THEN 1 ELSE 0]_vars

(***************************************************************************)
(* C16.  get_history(id) returns the ticket's history rows newest first:   *)
(* a row appended later never comes after a row appended earlier, also     *)
(* when the two carry the same changed_at (operations within one clock     *)
(* second, or the two rows of one update).                                 *)
(* The statement orders by changed_at only; among rows of one second the   *)
(* order is the store's, and SQLite hands them back oldest first.          *)
(***************************************************************************)
C16_HistoryNewestFirst ==
    \A id \in TicketIds :
        \A l \in get_history(DB, id) :
            \A i, j \in 1 .. Len(l) : i < j => l[i].history_id > l[j].history_id

(***************************************************************************)
(* C17.  Rating statistics: for every store state and date window,         *)
(* rating_distribution has a key for exactly the ratings that occur among  *)
(* the tickets of the window, each mapped to the number of those tickets   *)
(* with that rating, and average_rating is the mean of those ratings       *)
(* rounded to two decimals, or 0 when no ticket of the window has a        *)
(* rating; five tickets rated 1, 3, 4, 5, 5 give 3.6 and                   *)
(* {1: 1, 3: 1, 4: 1, 5: 2}.                                               *)
(***************************************************************************)
Ratings == 1 .. 5

InWindow(u, w) ==
    /\ w.date_from # NULL => u.created_at >= w.date_from[1]
    /\ w.date_to # NULL => u.created_at <= w.date_to[1]

RatedCount(rows, r) == Cardinality({u \in rows : u.rating = Some(r)})

\* the sum of r * count(r) over the ratings from r up
RECURSIVE WeightedSum(_, _)
WeightedSum(rows, r) ==
    IF r \notin Ratings THEN 0 ELSE r * RatedCount(rows, r) + WeightedSum(rows, r + 1)

\* stats holds the rating statistics of rows; hundredths is the mean rounded
\* to two decimals when it lies within half a hundredth of the mean
RatingStatsOf(stats, rows) ==
    LET n == Cardinality({u \in rows : u.rating # NULL})
        total == WeightedSum(rows, 1)
        off == 100 * total - stats.average_rating * n
    IN  /\ DOMAIN stats.rating_distribution = {r \in Ratings : RatedCount(rows, r) > 0}
        /\ \A r \in DOMAIN stats.rating_distribution :
              stats.rating_distribution[r] = RatedCount(rows, r)
        /\ n = 0 => stats.average_rating = 0
        /\ n > 0 => (2 * off <= n /\ 2 * off >= 0 - n)

\* the store after creating one ticket per rating, from the empty store
RECURSIVE CreatedWithRatings(_, _)
CreatedWithRatings(d, ratings) ==
    IF ratings = <<>> THEN d
    ELSE CreatedWithRatings(
             create(d, [name |-> Some("Ann"), email |-> Some("a@x.io"),
                        product |-> Some("App"), rating |-> Some(Head(ratings)),
                        type |-> Some("bug"), message |-> Some("Crash"),
                        priority |-> Some("High")], NoFault, now).db,
             Tail(ratings))

RatingRoundTrip ==
    LET stats == get_statistics(CreatedWithRatings(EmptyDB, <<1, 3, 4, 5, 5>>), NULL, NULL)
    IN  /\ stats.average_rating = 360
        /\ stats.rating_distribution = (1 :> 1) @@ (3 :> 1) @@ (4 :> 1) @@ (5 :> 2)

C17_RatingStatistics ==
    /\ RatingRoundTrip
    /\ \A w \in DateWindows :
          RatingStatsOf(get_statistics(DB, w.date_from, w.date_to),
                        {u \in tickets : InWindow(u, w)})

\* three rated tickets whose mean, 14/3, is rounded up to 4.67
C17_Witness ==
    /\ get_statistics(DB, NULL, NULL).average_rating = 467
    /\ get_statistics(DB, NULL, NULL).rating_distribution = (4 :> 1) @@ (5 :> 2)

(***************************************************************************)
(* C18.  Top customers: for every store state and date window,             *)
(* top_customers has at most 10 entries and at most one entry per email,   *)
(* each entry's count is the number of tickets of the window with that     *)
(* email, and no email left out has strictly more tickets in the window    *)
(* than a listed one; also when one email submitted under several names.   *)
(* The statement groups by email and name, so an email used with two       *)
(* names gets two entries, each counting only the tickets of its name.     *)
(***************************************************************************)
TicketsOfEmail(rows, email) == Cardinality({u \in rows : u.email = email})

TopCustomersOf(l, rows) ==
    /\ Len(l) <= 10
    /\ \A i, j \in 1 .. Len(l) : l[i].email = l[j].email => i = j
    /\ \A i \in 1 .. Len(l) : l[i].ticket_count = TicketsOfEmail(rows, l[i].email)
    /\ \A u \in rows :
          (\A i \in 1 .. Len(l) : l[i].email # u.email)
          => \A i \in 1 .. Len(l) :
                TicketsOfEmail(rows, u.email) <= TicketsOfEmail(rows, l[i].email)

C18_TopCustomers ==
    \A w \in DateWindows :
        \A l \in get_statistics(DB, w.date_from, w.date_to).top_customers :
            TopCustomersOf(l, {u \in tickets : InWindow(u, w)})

(***************************************************************************)
(* C20.  Customer upsert frame: when Ticket.create succeeds for an email   *)
(* that already has a customer row, that row keeps every attribute but     *)
(* total_tickets, which grows by one, and last_interaction, which is       *)
(* refreshed: phone, company and created_at stay, and no other customer    *)
(* row is touched.                                                         *)
(* INSERT OR REPLACE deletes the row holding the email and inserts a new   *)
(* one: a new customer_id, created_at reset to the time of the call,       *)
(* phone and company back to NULL.                                         *)
(***************************************************************************)
C20_UpsertFrame ==
    [][\A a \in Submissions, f \in Faults :
          (ret'.op = "create" /\ Create(a, f) /\ ret'.raised = "none") =>
            \A old \in customers :
                IF old.email = a.email[1]
                THEN \E new \in customers' :
                        /\ new.email = old.email
                        /\ new.total_tickets = old.total_tickets + 1
                        /\ new.last_interaction = Some(now)
                        /\ new.customer_id = old.customer_id
                        /\ new.phone = old.phone
                        /\ new.company = old.company
                        /\ new.created_at = old.created_at
                ELSE old \in customers']_vars

(***************************************************************************)
(* C19.  Concurrent status updates keep the audit chain: whenever no       *)
(* update is in flight, each ticket's status rows, in the order they were  *)
(* committed, form a chain (the first row's old_value is 'Pending', every  *)
(* other row's old_value is the new_value of the row before it) and the    *)
(* ticket's status is the new_value of the last row; no call logs an       *)
(* old_value another call had already overwritten.                         *)
(* update_status reads the status before its transaction starts, so a      *)
(* second caller that read before the first committed logs the stale       *)
(* status.                                                                 *)
(***************************************************************************)
\* the status row committed just before h for the same ticket, if any
StatusRowBefore(h) ==
    LET earlier == {g \in StatusRows(ticket_history, h.ticket_id) :
                      g.history_id < h.history_id}
    IN  {g \in earlier : \A e \in earlier : e.history_id <= g.history_id}

C19_AuditChain ==
    (\A c \in Conns : pc[c] = "idle") =>
        \A u \in tickets :
            LET rows == StatusRows(ticket_history, u.ticket_id)
            IN  /\ \A h \in rows :
                      IF StatusRowBefore(h) = {}
                      THEN h.old_value = Some("Pending")
                      ELSE \A g \in StatusRowBefore(h) : h.old_value = Some(g.new_value)
                /\ \A h \in rows :
                      (\A g \in rows : g.history_id <= h.history_id)
                      => h.new_value = u.status

=============================================================================
